---- MODULE Spec2Model ----
(***************************************************************************)
(* Priority queue service over a Redis sorted set (queue/queue.go), with   *)
(* the Clear operation of the set-based variant of the same package.       *)
(*                                                                         *)
(* Store state:                                                            *)
(*   zset[q]     the sorted set "queue:<q>", kept as Redis keeps it: a     *)
(*               sequence of (member, score) entries ordered by score and  *)
(*               then by member identifier;                                *)
(*   released[q] existence of the key "release:<q>" ("clear:<q>" in the    *)
(*               variant that has Clear);                                  *)
(*   docs        the JSON documents "dequeue:<uid>" indexed by             *)
(*               "idx:dequeue".  The key is a fresh uuid segment, so a     *)
(*               JSONSet adds a document; documents are only ever read     *)
(*               through FTSearch, which does not depend on the key, so    *)
(*               the collection is kept as a set of documents.             *)
(* Calls in progress:                                                      *)
(*   inflight[p] the Dequeue or Clear that caller p is running: the store  *)
(*               command it issues next (pc), its request, the members     *)
(*               its ZRange read and, as history, the members its remove   *)
(*               command took out of the sorted set (removed) and the      *)
(*               (queue, member) pairs the remove commands of all of p's   *)
(*               Dequeues took out (taken).  It keeps the values of the    *)
(*               caller's last call once that has returned (pc idle).      *)
(* History (not program state):                                            *)
(*   ever[q]     members that were ever enqueued in q;                     *)
(*   returned[q] members that some Dequeue of q returned;                  *)
(*   calls       the number of calls made so far, capped by MaxCalls;      *)
(*   ret         the last call: its request, what it returned, and in      *)
(*               reply the integer reply of its first store command        *)
(*               (ZADD: entries added, ZREM: entries removed, ZCARD), in   *)
(*               again whether an Enqueue repeats the call before it, in   *)
(*               failed whether a store command of the call failed.        *)
(*                                                                         *)
(* Member identifiers are 1..NumMembers, compared as Redis compares the    *)
(* identifier strings; 0 stands for the empty string.  Identifiers are     *)
(* plain tag tokens, which the index matches exactly.                      *)
(*                                                                         *)
(* Spec: every store command succeeds and every call runs from start to    *)
(* end without another call in between.                                    *)
(* SpecFail: as Spec, but a store command of a call may fail (the client   *)
(* returns an error and the command has no effect).                        *)
(* SpecRaw: as Spec, but the requests may carry an empty queue identifier  *)
(* ("") or an empty member identifier (0).                                 *)
(* SpecConc: two callers; a Dequeue or Clear is one step per store         *)
(* command, and the commands of the other caller's call and whole Enqueue, *)
(* SetPriority and Delete calls may come between its steps.                *)
(* SpecConcSet: the callers of SpecConc running the Dequeue of the         *)
(* set-based variant, whose audit is the set "dequeue:<q>" written with    *)
(* SADD; the set is kept in docs as one single-member document per         *)
(* element.                                                                *)
(* SpecRelease: the callers of SpecConc running release-all Dequeues and   *)
(* Clears among Enqueue and Delete calls; a call that has issued its       *)
(* remove command goes on to its last command (the caller keeps running    *)
(* and the store answers).                                                 *)
(***************************************************************************)
EXTENDS Integers, Sequences, FiniteSets, TLC

NumMembers == 3
MaxNumber == 2
MaxCalls == 4

Queues == {"qa", "qb"}
Members == 1..NumMembers
\* Two score levels: entries are ordered by score and tie on it.
Scores == {1, 2}
Numbers == (0 - 1)..MaxNumber

VARIABLES zset, released, docs, inflight, ever, returned, calls, ret

vars == <<zset, released, docs, inflight, ever, returned, calls, ret>>

Min(a, b) == IF a < b THEN a ELSE b

Max(a, b) == IF a > b THEN a ELSE b

(* ---------------- the store's primitives ---------------- *)

\* Redis orders a sorted set by score, equal scores by member.
Less(a, b) ==
    \/ a.score < b.score
    \/ a.score = b.score /\ a.member < b.member

ZAddAppend(z, m, s) ==
    SelectSeq(z, LAMBDA e : e.member # m) \o <<[member |-> m, score |-> s]>>

ZAddNoReplace(z, m, s) ==
    LET new == [member |-> m, score |-> s]
    IN  SelectSeq(z, LAMBDA e : Less(e, new)) \o <<new>>
        \o SelectSeq(z, LAMBDA e : ~Less(e, new))

\* ZADD key score member: insert, or move the existing member to the score.
ZAdd(z, m, s) ==
    LET new  == [member |-> m, score |-> s]
        rest == SelectSeq(z, LAMBDA e : e.member # m)
    IN  SelectSeq(rest, LAMBDA e : Less(e, new)) \o <<new>>
        \o SelectSeq(rest, LAMBDA e : Less(new, e))

ZCard(z) == Len(z)

\* Redis index normalisation: a negative index counts from the end.
Index(z, i) == IF i < 0 THEN Max(Len(z) + i, 0) ELSE i

MembersOf(z) == [i \in 1..Len(z) |-> z[i].member]

\* ZRANGE key start stop: the members of rank start..stop, ascending.
ZRange(z, start, stop) ==
    MembersOf(SubSeq(z, Index(z, start) + 1, Min(Index(z, stop), Len(z) - 1) + 1))

\* ZREMRANGEBYRANK key start stop.
ZRemRangeByRank(z, start, stop) ==
    LET lo == Index(z, start) + 1
        hi == Min(Index(z, stop), Len(z) - 1) + 1
    IN  IF lo > hi THEN z ELSE SubSeq(z, 1, lo - 1) \o SubSeq(z, hi + 1, Len(z))

\* ZREMRANGEBYSCORE key -inf +inf: every entry has a score in the range.
ZRemRangeByScore(z) == SelectSeq(z, LAMBDA e : e.score \notin Int)

\* ZREM key member.
ZRem(z, m) == SelectSeq(z, LAMBDA e : e.member # m)

HasMember(z, m) == \E i \in 1..Len(z) : z[i].member = m

ZRankFromOne(z, m) == CHOOSE i \in 1..Len(z) : z[i].member = m

\* ZRANK key member: the zero-based rank; only used when m is a member.
ZRank(z, m) == (CHOOSE i \in 1..Len(z) : z[i].member = m) - 1

InSeq(x, s) == \E i \in 1..Len(s) : s[i] = x

JSONSetNoMembers(d, q, members) == d \cup {[id |-> q, members |-> <<>>]}

\* JSON.SET dequeue:<uid> $ {id, members} under a fresh uid.
JSONSet(d, q, members) == d \cup {[id |-> q, members |-> members]}

FTSearchAnyQueue(d, q, m) ==
    Cardinality({doc \in d : InSeq(m, doc.members)})

\* FT.SEARCH idx:dequeue "@id:{q} @members:{m}": the number of documents
\* whose id tag is q and whose members tags contain m.
FTSearch(d, q, m) ==
    Cardinality({doc \in d : doc.id = q /\ InSeq(m, doc.members)})

(* ---------------- results of calls ---------------- *)

NoCall ==
    [op |-> "NewService", q |-> "", m |-> 0, s |-> 0, ra |-> FALSE,
     fd |-> FALSE, n |-> 0, members |-> <<>>, member |-> 0, ok |-> FALSE,
     pos |-> 0, reply |-> 0, again |-> FALSE, failed |-> FALSE, err |-> "nil"]

Call(op, q) == [NoCall EXCEPT !.op = op, !.q = q]

\* The callers that may run at the same time.
Procs == {"p1", "p2"}

\* A caller that is not inside a Dequeue.
Idle == [pc |-> "idle", req |-> NoCall, members |-> <<>>, removed |-> <<>>,
         taken |-> {}]

Init ==
    /\ zset = [q \in Queues |-> <<>>]
    /\ released = [q \in Queues |-> FALSE]
    /\ docs = {}
    /\ inflight = [p \in Procs |-> Idle]
    /\ ever = [q \in Queues |-> {}]
    /\ returned = [q \in Queues |-> {}]
    /\ calls = 0
    /\ ret = NoCall

(* ---------------- operations ---------------- *)

\* One more call is made.
Count == calls < MaxCalls /\ calls' = calls + 1

\* One more call is made, and it runs from start to end in one step.
Tick == Count /\ inflight' = inflight

ScoreOf(z, m) == (CHOOSE e \in {z[i] : i \in 1..Len(z)} : e.member = m).score

EnqueueIncrements(q, m, s) ==
    /\ Tick
    /\ zset' = [zset EXCEPT ![q] =
                   ZAdd(@, m, IF HasMember(@, m) THEN ScoreOf(@, m) + s ELSE s)]
    /\ ever' = [ever EXCEPT ![q] = @ \cup {m}]
    /\ ret' = [Call("Enqueue", q) EXCEPT !.m = m, !.s = s,
                  !.reply = ZCard(ZAdd(zset[q], m, s)) - ZCard(zset[q]),
                  !.again = (ret.op = "Enqueue" /\ ret.q = q /\ ret.m = m /\ ret.s = s)]
    /\ UNCHANGED <<released, docs, returned>>

EnqueueForgets(q, m, s) ==
    /\ Tick
    /\ zset' = [zset EXCEPT ![q] = ZAdd(@, m, s)]
    /\ docs' = {doc \in docs : ~(doc.id = q /\ InSeq(m, doc.members))}
    /\ ever' = [ever EXCEPT ![q] = @ \cup {m}]
    /\ ret' = [Call("Enqueue", q) EXCEPT !.m = m, !.s = s,
                  !.reply = ZCard(ZAdd(zset[q], m, s)) - ZCard(zset[q]),
                  !.again = (ret.op = "Enqueue" /\ ret.q = q /\ ret.m = m /\ ret.s = s)]
    /\ UNCHANGED <<released, returned>>

Enqueue(q, m, s) ==
    /\ Tick
    /\ zset' = [zset EXCEPT ![q] = ZAdd(@, m, s)]
    /\ ever' = [ever EXCEPT ![q] = @ \cup {m}]
    /\ ret' = [Call("Enqueue", q) EXCEPT !.m = m, !.s = s,
                  !.reply = ZCard(ZAdd(zset[q], m, s)) - ZCard(zset[q]),
                  !.again = (ret.op = "Enqueue" /\ ret.q = q /\ ret.m = m /\ ret.s = s)]
    /\ UNCHANGED <<released, docs, returned>>

SetPriorityOnlyPresent(q, m, s) ==
    /\ Tick
    /\ zset' = [zset EXCEPT ![q] = IF HasMember(@, m) THEN ZAdd(@, m, s) ELSE @]
    /\ ever' = [ever EXCEPT ![q] = @ \cup {m}]
    /\ ret' = [Call("SetPriority", q) EXCEPT !.m = m, !.s = s]
    /\ UNCHANGED <<released, docs, returned>>

SetPriority(q, m, s) ==
    /\ Tick
    /\ zset' = [zset EXCEPT ![q] = ZAdd(@, m, s)]
    /\ ever' = [ever EXCEPT ![q] = @ \cup {m}]
    /\ ret' = [Call("SetPriority", q) EXCEPT !.m = m, !.s = s,
                  !.reply = ZCard(ZAdd(zset[q], m, s)) - ZCard(zset[q])]
    /\ UNCHANGED <<released, docs, returned>>

SetReleaseEveryQueue(r, q) == [p \in DOMAIN r |-> TRUE]

\* Set release:<q> true (no expiry).
SetRelease(r, q) == [r EXCEPT ![q] = TRUE]

dequeueAllMembersByScore(req) ==
    LET q == req.q
        members == ZRange(zset[q], 0, 0 - 1)
    IN  /\ zset' = [zset EXCEPT ![q] = ZRemRangeByScore(@)]
        /\ released' = SetRelease(released, q)
        /\ returned' = [returned EXCEPT ![q] = @ \cup {members[i] : i \in 1..Len(members)}]
        /\ ret' = [req EXCEPT !.members = members]
        /\ UNCHANGED <<docs, ever>>

dequeueByRankRecordsAll(req, stop) ==
    LET q == req.q
        members == ZRange(zset[q], 0, stop)
    IN  /\ zset' = [zset EXCEPT ![q] = ZRemRangeByRank(@, 0, stop)]
        /\ docs' = JSONSet(docs, q, ZRange(zset[q], 0, 0 - 1))
        /\ returned' = [returned EXCEPT ![q] = @ \cup {members[i] : i \in 1..Len(members)}]
        /\ ret' = [req EXCEPT !.members = members]
        /\ UNCHANGED <<released, ever>>

dequeueByRank(req, stop) ==
    LET q == req.q
        members == ZRange(zset[q], 0, stop)
    IN  /\ zset' = [zset EXCEPT ![q] = ZRemRangeByRank(@, 0, stop)]
        /\ docs' = JSONSet(docs, q, members)
        /\ returned' = [returned EXCEPT ![q] = @ \cup {members[i] : i \in 1..Len(members)}]
        /\ ret' = [req EXCEPT !.members = members]
        /\ UNCHANGED <<released, ever>>

DequeueStopIsNumber(q, ra, fd, n) ==
    LET req == [Call("Dequeue", q) EXCEPT !.ra = ra, !.fd = fd, !.n = n,
                                           !.reply = ZCard(zset[q])]
    IN  /\ Tick
        /\ IF ZCard(zset[q]) = 0
           THEN /\ ret' = req
                /\ UNCHANGED <<zset, released, docs, ever, returned>>
           ELSE IF ra
           THEN dequeueAllMembersByScore(req)
           ELSE IF fd /\ n > 1
           THEN dequeueByRank(req, n)
           ELSE dequeueByRank(req, 0)

DequeueIgnoresFirstDequeue(q, ra, fd, n) ==
    LET req == [Call("Dequeue", q) EXCEPT !.ra = ra, !.fd = fd, !.n = n,
                                           !.reply = ZCard(zset[q])]
    IN  /\ Tick
        /\ IF ZCard(zset[q]) = 0
           THEN /\ ret' = req
                /\ UNCHANGED <<zset, released, docs, ever, returned>>
           ELSE IF ra
           THEN dequeueAllMembersByScore(req)
           ELSE IF n > 1
           THEN dequeueByRank(req, n - 1)
           ELSE dequeueByRank(req, 0)

Dequeue(q, ra, fd, n) ==
    LET req == [Call("Dequeue", q) EXCEPT !.ra = ra, !.fd = fd, !.n = n,
                                           !.reply = ZCard(zset[q])]
    IN  /\ Tick
        /\ IF ZCard(zset[q]) = 0
           THEN /\ ret' = req
                /\ UNCHANGED <<zset, released, docs, ever, returned>>
           ELSE IF ra
           THEN dequeueAllMembersByScore(req)
           ELSE IF fd /\ n > 1
           THEN dequeueByRank(req, n - 1)
           ELSE dequeueByRank(req, 0)

\* Clear of the set-based variant; its flag key is clear:<q>.
Clear(q) ==
    /\ Tick
    /\ ret' = [Call("Clear", q) EXCEPT !.reply = ZCard(zset[q])]
    /\ IF ZCard(zset[q]) = 0
       THEN UNCHANGED <<zset, released, docs, ever, returned>>
       ELSE /\ zset' = [zset EXCEPT ![q] = ZRemRangeByScore(@)]
            /\ released' = SetRelease(released, q)
            /\ UNCHANGED <<docs, ever, returned>>

PeekRemoves(q) ==
    LET members == ZRange(zset[q], 0, 0)
    IN  /\ Tick
        /\ ret' = IF Len(members) = 0
                  THEN [Call("PeekByQueueID", q) EXCEPT !.err = "ErrQueueEmpty"]
                  ELSE [Call("PeekByQueueID", q) EXCEPT !.member = members[1]]
        /\ zset' = [zset EXCEPT ![q] = ZRemRangeByRank(@, 0, 0)]
        /\ UNCHANGED <<released, docs, ever, returned>>

PeekNoEmptyError(q) ==
    LET members == ZRange(zset[q], 0, 0)
    IN  /\ Tick
        /\ ret' = IF Len(members) = 0
                  THEN Call("PeekByQueueID", q)
                  ELSE [Call("PeekByQueueID", q) EXCEPT !.member = members[1]]
        /\ UNCHANGED <<zset, released, docs, ever, returned>>

PeekByQueueID(q) ==
    LET members == ZRange(zset[q], 0, 0)
    IN  /\ Tick
        /\ ret' = IF Len(members) = 0
                  THEN [Call("PeekByQueueID", q) EXCEPT !.err = "ErrQueueEmpty"]
                  ELSE [Call("PeekByQueueID", q) EXCEPT !.member = members[1]]
        /\ UNCHANGED <<zset, released, docs, ever, returned>>

GetPositionNilIsZero(q, m) ==
    LET req == [Call("GetPosition", q) EXCEPT !.m = m, !.reply = ZCard(zset[q])]
    IN  /\ Tick
        /\ ret' = IF ZCard(zset[q]) = 0
                  THEN [req EXCEPT !.err = "ErrQueueEmpty"]
                  ELSE IF HasMember(zset[q], m)
                  THEN [req EXCEPT !.pos = ZRank(zset[q], m)]
                  ELSE req
        /\ UNCHANGED <<zset, released, docs, ever, returned>>

GetPosition(q, m) ==
    LET req == [Call("GetPosition", q) EXCEPT !.m = m, !.reply = ZCard(zset[q])]
    IN  /\ Tick
        /\ ret' = IF ZCard(zset[q]) = 0
                  THEN [req EXCEPT !.err = "ErrQueueEmpty"]
                  ELSE IF HasMember(zset[q], m)
                  THEN [req EXCEPT !.pos = ZRank(zset[q], m)]
                  ELSE [req EXCEPT !.err = "redis.Nil"]
        /\ UNCHANGED <<zset, released, docs, ever, returned>>

DeleteRecords(q, m) ==
    /\ Tick
    /\ zset' = [zset EXCEPT ![q] = ZRem(@, m)]
    /\ docs' = JSONSet(docs, q, <<m>>)
    /\ ret' = [Call("Delete", q) EXCEPT !.m = m,
                  !.reply = ZCard(zset[q]) - ZCard(ZRem(zset[q], m))]
    /\ UNCHANGED <<released, ever, returned>>

Delete(q, m) ==
    /\ Tick
    /\ zset' = [zset EXCEPT ![q] = ZRem(@, m)]
    /\ ret' = [Call("Delete", q) EXCEPT !.m = m,
                  !.reply = ZCard(zset[q]) - ZCard(ZRem(zset[q], m))]
    /\ UNCHANGED <<released, docs, ever, returned>>

IsDequeuedSearchOnly(q, m) == FTSearch(docs, q, m) > 0

\* What IsDequeued answers in the current store state.
IsDequeuedResult(q, m) ==
    IF released[q] THEN TRUE ELSE FTSearch(docs, q, m) > 0

IsDequeued(q, m) ==
    /\ Tick
    /\ ret' = [Call("IsDequeued", q) EXCEPT !.m = m, !.ok = IsDequeuedResult(q, m)]
    /\ UNCHANGED <<zset, released, docs, ever, returned>>

Next ==
    \/ \E q \in Queues, m \in Members, s \in Scores : Enqueue(q, m, s)
    \/ \E q \in Queues, m \in Members, s \in Scores : SetPriority(q, m, s)
    \/ \E q \in Queues, ra \in BOOLEAN, fd \in BOOLEAN, n \in Numbers : Dequeue(q, ra, fd, n)
    \/ \E q \in Queues : Clear(q)
    \/ \E q \in Queues : PeekByQueueID(q)
    \/ \E q \in Queues, m \in Members : GetPosition(q, m)
    \/ \E q \in Queues, m \in Members : Delete(q, m)
    \/ \E q \in Queues, m \in Members : IsDequeued(q, m)

Spec == Init /\ [][Next]_vars

(* ---------------- operations over a store that can fail ---------------- *)

\* In the calls below f is the number of the store command of the call
\* that fails, in the order the code issues them; 0 when none fails.
StoreErr(req) == [req EXCEPT !.failed = TRUE, !.err = "store"]

EnqueueF(q, m, s, f) ==
    IF f = 0 THEN Enqueue(q, m, s)
    ELSE /\ Tick
         /\ ret' = StoreErr([Call("Enqueue", q) EXCEPT !.m = m, !.s = s])
         /\ UNCHANGED <<zset, released, docs, ever, returned>>

SetPriorityF(q, m, s, f) ==
    IF f = 0 THEN SetPriority(q, m, s)
    ELSE /\ Tick
         /\ ret' = StoreErr([Call("SetPriority", q) EXCEPT !.m = m, !.s = s])
         /\ UNCHANGED <<zset, released, docs, ever, returned>>

DeleteF(q, m, f) ==
    IF f = 0 THEN Delete(q, m)
    ELSE /\ Tick
         /\ ret' = StoreErr([Call("Delete", q) EXCEPT !.m = m])
         /\ UNCHANGED <<zset, released, docs, ever, returned>>

PeekByQueueIDF(q, f) ==
    IF f = 0 THEN PeekByQueueID(q)
    ELSE /\ Tick
         /\ ret' = StoreErr(Call("PeekByQueueID", q))
         /\ UNCHANGED <<zset, released, docs, ever, returned>>

\* Commands: 1 ZCard, 2 ZRank (issued when the count is not 0).
GetPositionF(q, m, f) ==
    IF f = 0 \/ (f = 2 /\ ZCard(zset[q]) = 0) THEN GetPosition(q, m)
    ELSE /\ Tick
         /\ ret' = StoreErr([Call("GetPosition", q) EXCEPT !.m = m,
                               !.reply = IF f = 1 THEN 0 ELSE ZCard(zset[q])])
         /\ UNCHANGED <<zset, released, docs, ever, returned>>

\* Commands 2 ZRange, 3 ZRemRangeByScore, 4 Set; f is one of them.
dequeueAllMembersByScoreF(req, f) ==
    LET q == req.q
    IN  /\ ret' = StoreErr(req)
        /\ zset' = IF f = 4 THEN [zset EXCEPT ![q] = ZRemRangeByScore(@)] ELSE zset
        /\ UNCHANGED <<released, docs, ever, returned>>

\* Commands 2 ZRange, 3 ZRemRangeByRank, 4 JSONSet; f is one of them.
dequeueByRankF(req, stop, f) ==
    LET q == req.q
    IN  /\ ret' = StoreErr(req)
        /\ zset' = IF f = 4 THEN [zset EXCEPT ![q] = ZRemRangeByRank(@, 0, stop)] ELSE zset
        /\ UNCHANGED <<released, docs, ever, returned>>

\* Commands: 1 ZCard, then those of the helper (issued when the length
\* is not 0).
DequeueF(q, ra, fd, n, f) ==
    LET req == [Call("Dequeue", q) EXCEPT !.ra = ra, !.fd = fd, !.n = n]
    IN  IF f = 0 \/ (f > 1 /\ ZCard(zset[q]) = 0) THEN Dequeue(q, ra, fd, n)
        ELSE /\ Tick
             /\ IF f = 1
                THEN /\ ret' = StoreErr(req)
                     /\ UNCHANGED <<zset, released, docs, ever, returned>>
                ELSE IF ra
                THEN dequeueAllMembersByScoreF([req EXCEPT !.reply = ZCard(zset[q])], f)
                ELSE IF fd /\ n > 1
                THEN dequeueByRankF([req EXCEPT !.reply = ZCard(zset[q])], n - 1, f)
                ELSE dequeueByRankF([req EXCEPT !.reply = ZCard(zset[q])], 0, f)

\* Commands: 1 ZCard, 2 ZRemRangeByScore, 3 Set (2 and 3 issued when the
\* length is not 0).
ClearF(q, f) ==
    IF f = 0 \/ (f > 1 /\ ZCard(zset[q]) = 0) THEN Clear(q)
    ELSE /\ Tick
         /\ ret' = StoreErr([Call("Clear", q) EXCEPT
                               !.reply = IF f = 1 THEN 0 ELSE ZCard(zset[q])])
         /\ zset' = IF f = 3 THEN [zset EXCEPT ![q] = ZRemRangeByScore(@)] ELSE zset
         /\ UNCHANGED <<released, docs, ever, returned>>

\* Commands: Exists, then FTSearch unless Exists succeeded with 1.  An
\* error of Exists is dropped and the answer is FTSearch's.
IsDequeuedF(q, m, failExists, failSearch) ==
    LET req == [Call("IsDequeued", q) EXCEPT !.m = m]
    IN  /\ Tick
        /\ ret' = IF ~failExists /\ released[q]
                  THEN [req EXCEPT !.ok = TRUE]
                  ELSE IF failSearch
                  THEN StoreErr(req)
                  ELSE [req EXCEPT !.ok = FTSearch(docs, q, m) > 0,
                                   !.failed = failExists]
        /\ UNCHANGED <<zset, released, docs, ever, returned>>

NextFail ==
    \/ \E q \in Queues, m \in Members, s \in Scores, f \in 0..1 : EnqueueF(q, m, s, f)
    \/ \E q \in Queues, m \in Members, s \in Scores, f \in 0..1 : SetPriorityF(q, m, s, f)
    \/ \E q \in Queues, ra \in BOOLEAN, fd \in BOOLEAN, n \in Numbers, f \in 0..4 :
          DequeueF(q, ra, fd, n, f)
    \/ \E q \in Queues, f \in 0..3 : ClearF(q, f)
    \/ \E q \in Queues, f \in 0..1 : PeekByQueueIDF(q, f)
    \/ \E q \in Queues, m \in Members, f \in 0..2 : GetPositionF(q, m, f)
    \/ \E q \in Queues, m \in Members, f \in 0..1 : DeleteF(q, m, f)
    \/ \E q \in Queues, m \in Members, fe \in BOOLEAN, fs \in BOOLEAN :
          IsDequeuedF(q, m, fe, fs)

SpecFail == Init /\ [][NextFail]_vars

(* ---------------- requests with empty identifiers ---------------- *)

\* The identifiers a caller can pass: the request structs hold plain
\* strings, "" (member 0) included, and the methods pass them on as they are.
RawQueues == {"", "qa"}
RawMembers == {0, 1}

InitRaw ==
    /\ zset = [q \in RawQueues |-> <<>>]
    /\ released = [q \in RawQueues |-> FALSE]
    /\ docs = {}
    /\ inflight = [p \in Procs |-> Idle]
    /\ ever = [q \in RawQueues |-> {}]
    /\ returned = [q \in RawQueues |-> {}]
    /\ calls = 0
    /\ ret = NoCall

NextRaw ==
    \/ \E q \in RawQueues, m \in RawMembers, s \in Scores : Enqueue(q, m, s)
    \/ \E q \in RawQueues, m \in RawMembers, s \in Scores : SetPriority(q, m, s)
    \/ \E q \in RawQueues, ra \in BOOLEAN, fd \in BOOLEAN, n \in Numbers : Dequeue(q, ra, fd, n)
    \/ \E q \in RawQueues : Clear(q)
    \/ \E q \in RawQueues : PeekByQueueID(q)
    \/ \E q \in RawQueues, m \in RawMembers : GetPosition(q, m)
    \/ \E q \in RawQueues, m \in RawMembers : Delete(q, m)
    \/ \E q \in RawQueues, m \in RawMembers : IsDequeued(q, m)

SpecRaw == InitRaw /\ [][NextRaw]_vars

(* ---------------- concurrent callers ---------------- *)

\* The stop rank Dequeue hands to its helper; release-all reads 0 .. -1.
Stop(req) == IF req.ra THEN 0 - 1 ELSE IF req.fd /\ req.n > 1 THEN req.n - 1 ELSE 0

\* Caller p enters Dequeue and its ZCard is answered.
DequeueZCard(p, q, ra, fd, n) ==
    LET req == [Call("Dequeue", q) EXCEPT !.ra = ra, !.fd = fd, !.n = n,
                                           !.reply = ZCard(zset[q])]
    IN  /\ inflight[p].pc = "idle"
        /\ Count
        /\ IF ZCard(zset[q]) = 0
           THEN /\ ret' = req
                /\ inflight' = [inflight EXCEPT ![p] =
                                   [Idle EXCEPT !.req = req, !.taken = inflight[p].taken]]
           ELSE /\ ret' = ret
                /\ inflight' = [inflight EXCEPT ![p] =
                                   [Idle EXCEPT !.pc = "ZRange", !.req = req,
                                                !.taken = inflight[p].taken]]
        /\ UNCHANGED <<zset, released, docs, ever, returned>>

\* The ZRange of p's Dequeue is answered.
DequeueZRange(p) ==
    LET req == inflight[p].req
    IN  /\ inflight[p].pc = "ZRange"
        /\ inflight' = [inflight EXCEPT ![p].pc = "ZRem",
                           ![p].members = ZRange(zset[req.q], 0, Stop(req))]
        /\ UNCHANGED <<zset, released, docs, ever, returned, calls, ret>>

\* The ZRemRangeByRank (release-all: ZRemRangeByScore) of p's Dequeue is
\* applied to the sorted set as it is now.
DequeueZRem(p) ==
    LET req == inflight[p].req
        q == req.q
        removed == ZRange(zset[q], 0, Stop(req))
    IN  /\ inflight[p].pc = "ZRem"
        /\ zset' = [zset EXCEPT ![q] = IF req.ra THEN ZRemRangeByScore(@)
                                       ELSE ZRemRangeByRank(@, 0, Stop(req))]
        /\ inflight' = [inflight EXCEPT ![p].pc = "Record",
                           ![p].removed = removed,
                           ![p].taken = @ \cup {<<q, removed[i]>> : i \in 1..Len(removed)}]
        /\ UNCHANGED <<released, docs, ever, returned, calls, ret>>

\* The JSONSet (release-all: Set of the flag) of p's Dequeue is applied
\* and the call returns the members its ZRange read.
DequeueRecord(p) ==
    LET req == inflight[p].req
        q == req.q
        members == inflight[p].members
    IN  /\ inflight[p].pc = "Record"
        /\ IF req.ra
           THEN released' = SetRelease(released, q) /\ docs' = docs
           ELSE docs' = JSONSet(docs, q, members) /\ released' = released
        /\ returned' = [returned EXCEPT ![q] = @ \cup {members[i] : i \in 1..Len(members)}]
        /\ ret' = [req EXCEPT !.members = members]
        /\ inflight' = [inflight EXCEPT ![p].pc = "idle"]
        /\ UNCHANGED <<zset, ever, calls>>

\* Caller p enters Clear and its ZCard is answered.
ClearZCard(p, q) ==
    LET req == [Call("Clear", q) EXCEPT !.reply = ZCard(zset[q])]
    IN  /\ inflight[p].pc = "idle"
        /\ Count
        /\ IF ZCard(zset[q]) = 0
           THEN /\ ret' = req
                /\ inflight' = [inflight EXCEPT ![p] =
                                   [Idle EXCEPT !.req = req, !.taken = inflight[p].taken]]
           ELSE /\ ret' = ret
                /\ inflight' = [inflight EXCEPT ![p] =
                                   [Idle EXCEPT !.pc = "ClearZRem", !.req = req,
                                                !.taken = inflight[p].taken]]
        /\ UNCHANGED <<zset, released, docs, ever, returned>>

\* The ZRemRangeByScore of p's Clear is applied.
ClearZRem(p) ==
    LET q == inflight[p].req.q
    IN  /\ inflight[p].pc = "ClearZRem"
        /\ zset' = [zset EXCEPT ![q] = ZRemRangeByScore(@)]
        /\ inflight' = [inflight EXCEPT ![p].pc = "ClearSet"]
        /\ UNCHANGED <<released, docs, ever, returned, calls, ret>>

ClearSetNoFlag(p) ==
    LET req == inflight[p].req
    IN  /\ inflight[p].pc = "ClearSet"
        /\ ret' = req
        /\ inflight' = [inflight EXCEPT ![p].pc = "idle"]
        /\ UNCHANGED <<zset, released, docs, ever, returned, calls>>

\* The Set of the flag of p's Clear is applied and the call returns.
ClearSet(p) ==
    LET req == inflight[p].req
    IN  /\ inflight[p].pc = "ClearSet"
        /\ released' = SetRelease(released, req.q)
        /\ ret' = req
        /\ inflight' = [inflight EXCEPT ![p].pc = "idle"]
        /\ UNCHANGED <<zset, docs, ever, returned, calls>>

\* The callers work on one queue, with one request of each Dequeue mode:
\* single, first MaxNumber, release-all.
SharedQueue == "qa"
Modes == {<<FALSE, FALSE, 0>>, <<FALSE, TRUE, MaxNumber>>, <<TRUE, FALSE, 0>>}

NextConc ==
    \/ \E m \in Members, s \in Scores : Enqueue(SharedQueue, m, s)
    \/ \E m \in Members, s \in Scores : SetPriority(SharedQueue, m, s)
    \/ \E m \in Members : Delete(SharedQueue, m)
    \/ \E p \in Procs, d \in Modes : DequeueZCard(p, SharedQueue, d[1], d[2], d[3])
    \/ \E p \in Procs : DequeueZRange(p)
    \/ \E p \in Procs : DequeueZRem(p)
    \/ \E p \in Procs : DequeueRecord(p)
    \/ \E p \in Procs : ClearZCard(p, SharedQueue)
    \/ \E p \in Procs : ClearZRem(p)
    \/ \E p \in Procs : ClearSet(p)

SpecConc == Init /\ [][NextConc]_vars

\* The callers that release the shared queue as a whole, with Enqueue and
\* Delete calls between their steps.
NextRelease ==
    \/ \E m \in Members, s \in Scores : Enqueue(SharedQueue, m, s)
    \/ \E m \in Members : Delete(SharedQueue, m)
    \/ \E p \in Procs : DequeueZCard(p, SharedQueue, TRUE, FALSE, 0)
    \/ \E p \in Procs : DequeueZRange(p)
    \/ \E p \in Procs : DequeueZRem(p)
    \/ \E p \in Procs : DequeueRecord(p)
    \/ \E p \in Procs : ClearZCard(p, SharedQueue)
    \/ \E p \in Procs : ClearZRem(p)
    \/ \E p \in Procs : ClearSet(p)

\* A caller inside a call is scheduled again and the store answers its
\* command: the last command of a call that is pending is eventually applied.
SpecRelease ==
    /\ Init /\ [][NextRelease]_vars
    /\ \A p \in Procs : WF_vars(DequeueRecord(p)) /\ WF_vars(ClearSet(p))

(* ---------------- concurrent callers, set-based variant ---------------- *)

\* SADD dequeue:<q> members...: the set gains every member given.
SAdd(d, q, members) ==
    d \cup {[id |-> q, members |-> <<members[i]>>] : i \in 1..Len(members)}

\* The SAdd of p's Dequeue is applied and the call returns the members its
\* ZRange read.  The client sends the slice as the command's arguments, and
\* the store rejects an SADD that names no member.
DequeueSAdd(p) ==
    LET req == inflight[p].req
        q == req.q
        members == inflight[p].members
    IN  /\ inflight[p].pc = "Record"
        /\ IF Len(members) = 0
           THEN /\ ret' = [req EXCEPT !.err = "ERR wrong number of arguments"]
                /\ UNCHANGED <<docs, returned>>
           ELSE /\ docs' = SAdd(docs, q, members)
                /\ returned' = [returned EXCEPT ![q] = @ \cup {members[i] : i \in 1..Len(members)}]
                /\ ret' = [req EXCEPT !.members = members]
        /\ inflight' = [inflight EXCEPT ![p].pc = "idle"]
        /\ UNCHANGED <<zset, released, ever, calls>>

\* DequeueReq{Number} of the variant: a single member, or the first
\* MaxNumber.
Numbered == {0, MaxNumber}

NextConcSet ==
    \/ \E m \in Members, s \in Scores : Enqueue(SharedQueue, m, s)
    \/ \E m \in Members : Delete(SharedQueue, m)
    \/ \E p \in Procs, n \in Numbered : DequeueZCard(p, SharedQueue, FALSE, TRUE, n)
    \/ \E p \in Procs : DequeueZRange(p)
    \/ \E p \in Procs : DequeueZRem(p)
    \/ \E p \in Procs : DequeueSAdd(p)
    \/ \E p \in Procs : ClearZCard(p, SharedQueue)
    \/ \E p \in Procs : ClearZRem(p)
    \/ \E p \in Procs : ClearSet(p)

SpecConcSet == Init /\ [][NextConcSet]_vars

(* ---------------- properties ---------------- *)

EntrySet(z) == {z[i] : i \in 1..Len(z)}

\* Ascending score, equal scores by member identifier.
Before(e, f) == e.score < f.score \/ (e.score = f.score /\ e.member < f.member)

NoDuplicate(z) == \A i, j \in 1..Len(z) : i # j => z[i].member # z[j].member

Ascending(z) == \A i, j \in 1..Len(z) : i < j => Before(z[i], z[j])

\* C1: a member is in a queue's live ordering at most once, after every
\* call; an Enqueue of a member that is already present gives it the new
\* score, keeps every other entry and leaves the cardinality unchanged.
C1_MemberAtMostOnce ==
    [][/\ \A q \in Queues : NoDuplicate(zset'[q])
       /\ (ret'.op = "Enqueue" /\ HasMember(zset[ret'.q], ret'.m)) =>
             /\ Len(zset'[ret'.q]) = Len(zset[ret'.q])
             /\ EntrySet(zset'[ret'.q]) =
                   {e \in EntrySet(zset[ret'.q]) : e.member # ret'.m}
                   \cup {[member |-> ret'.m, score |-> ret'.s]}]_vars

\* An Enqueue has moved a member that was present (ZADD added nothing)
\* while another member stays in the queue.
C1_Witness ==
    /\ ret.op = "Enqueue"
    /\ ret.reply = 0
    /\ Len(zset[ret.q]) = 2
    /\ \E i \in 1..2 : zset[ret.q][i].member = ret.m /\ i # ret.m

\* C2: a successful GetPosition(m) is the number of entries that come
\* before m's entry by ascending score, equal scores by member identifier:
\* a function of the set of (member, score) entries alone.
C2_PositionIsRank ==
    (ret.op = "GetPosition" /\ ret.err = "nil") =>
        LET E == EntrySet(zset[ret.q])
            me == CHOOSE e \in E : e.member = ret.m
        IN  /\ \E e \in E : e.member = ret.m
            /\ ret.pos = Cardinality({e \in E : Before(e, me)})

\* GetPosition of the third of three entries, behind one entry by its
\* score and behind the other by a tie on the score.
C2_Witness ==
    /\ ret.op = "GetPosition"
    /\ ret.err = "nil"
    /\ ret.pos = 2
    /\ ret.m = 3
    /\ zset[ret.q][1].score < zset[ret.q][2].score
    /\ zset[ret.q][2].score = zset[ret.q][3].score
    /\ ret.reply = 3

\* C3: a First-N Dequeue (N > 1) of a queue of K entries returns the
\* members of rank 0..min(N,K)-1 in ascending order and removes exactly
\* them: the rest stays, in its order, and nothing stays when K < N.
C3_FirstN ==
    [][(ret'.op = "Dequeue" /\ ~ret'.ra /\ ret'.fd /\ ret'.n > 1) =>
          LET before == zset[ret'.q]
              K == Len(before)
              k == IF ret'.n < K THEN ret'.n ELSE K
          IN  /\ Ascending(before)
              /\ ret'.err = "nil"
              /\ ret'.members = [i \in 1..k |-> before[i].member]
              /\ zset'[ret'.q] = [i \in 1..(K - k) |-> before[i + k]]
              /\ (K < ret'.n => zset'[ret'.q] = <<>>)]_vars

\* First-2 on three entries: two returned, the third stays.
C3_Witness ==
    /\ ret.op = "Dequeue"
    /\ ~ret.ra /\ ret.fd /\ ret.n = 2
    /\ ret.reply = 3
    /\ Len(ret.members) = 2
    /\ Len(zset[ret.q]) = 1

\* C4: on a queue with no entries Dequeue, in every mode, returns the empty
\* list and no error, and PeekByQueueID returns ErrQueueEmpty.
C4_EmptyQueue ==
    [][/\ (ret'.op = "Dequeue" /\ Len(zset[ret'.q]) = 0) =>
             (ret'.members = <<>> /\ ret'.err = "nil")
       /\ (ret'.op = "PeekByQueueID" /\ Len(zset[ret'.q]) = 0) =>
             ret'.err = "ErrQueueEmpty"]_vars

\* PeekByQueueID has failed on a queue that was emptied by a Dequeue.
C4_Witness ==
    /\ ret.op = "PeekByQueueID"
    /\ ret.err = "ErrQueueEmpty"
    /\ returned[ret.q] # {}
    /\ zset[ret.q] = <<>>

\* C5: after a successful Clear or release-all Dequeue of a queue,
\* IsDequeued is true of every member that was ever enqueued in it, also
\* of those a Delete removed before and of those never recorded.
C5_ReleaseAllCoversEveryMember ==
    ((ret.op = "Clear" \/ (ret.op = "Dequeue" /\ ret.ra)) /\ ret.err = "nil") =>
        \A m \in ever[ret.q] : IsDequeuedResult(ret.q, m)

\* C6: once release:<q> exists it exists ever after, and every IsDequeued
\* call on q from then on returns true, whatever the audit documents hold
\* and whether or not the member is in the live ordering.
C6_ReleasedIsForAll ==
    [][\A q \in Queues : released[q] =>
          /\ released'[q]
          /\ (ret'.op = "IsDequeued" /\ ret'.q = q) =>
                (ret'.ok /\ ret'.err = "nil")]_vars

\* IsDequeued has answered true for a member that was enqueued after the
\* release, is in the live ordering and is in no audit document.
C6_Witness ==
    /\ ret.op = "IsDequeued"
    /\ ret.ok
    /\ released[ret.q]
    /\ HasMember(zset[ret.q], ret.m)
    /\ FTSearch(docs, ret.q, ret.m) = 0
    /\ ret.m \notin returned[ret.q]

\* C7: when a single or First-N Dequeue has returned, IsDequeued is true
\* of every member of the returned list, also when the queue is now empty.
C7_ReturnedAreDequeued ==
    (ret.op = "Dequeue" /\ ~ret.ra /\ ret.err = "nil") =>
        \A i \in 1..Len(ret.members) : IsDequeuedResult(ret.q, ret.members[i])

\* A First-N Dequeue has returned two members and emptied an unreleased
\* queue.
C7_Witness ==
    /\ ret.op = "Dequeue"
    /\ ~ret.ra
    /\ Len(ret.members) = 2
    /\ zset[ret.q] = <<>>
    /\ ~released[ret.q]
    /\ \A i \in 1..2 : IsDequeuedResult(ret.q, ret.members[i])

\* C8 as stated: with the queue not flagged, IsDequeued(q, m) is false
\* after Delete(q, m) has removed m.
C8_DeletedIsNotDequeued ==
    (ret.op = "Delete" /\ ret.reply = 1 /\ ~released[ret.q]) =>
        ~IsDequeuedResult(ret.q, ret.m)

\* C8 amended: Delete writes no audit document and no release flag; with
\* the queue not flagged and m never returned by a Dequeue of q,
\* IsDequeued(q, m) is false after Delete(q, m).
C8_DeleteWritesNoRecord ==
    [][ret'.op = "Delete" =>
          /\ docs' = docs
          /\ released' = released
          /\ \A q \in Queues, m \in Members :
                (ret'.q = q /\ ret'.m = m /\ ~released'[q] /\ m \notin returned'[q])
                   => ~IsDequeuedResult(q, m)']_vars

\* Delete has removed a member of a queue that an earlier Dequeue took
\* another member from.
C8_Witness ==
    /\ ret.op = "Delete"
    /\ ret.reply = 1
    /\ ~released[ret.q]
    /\ ret.m \notin returned[ret.q]
    /\ returned[ret.q] # {}
    /\ ~IsDequeuedResult(ret.q, ret.m)

\* C9: IsDequeued(q, m) returns false and no error when m was never
\* enqueued in q and q is not flagged.
C9_NeverEnqueuedIsFalse ==
    (ret.op = "IsDequeued" /\ ret.m \notin ever[ret.q] /\ ~released[ret.q]) =>
        (~ret.ok /\ ret.err = "nil")

\* IsDequeued(q, m) has answered false while another queue has dequeued
\* the same member identifier.
C9_Witness ==
    /\ ret.op = "IsDequeued"
    /\ ~ret.ok
    /\ ret.m \notin ever[ret.q]
    /\ ~released[ret.q]
    /\ \E p \in Queues \ {ret.q} : FTSearch(docs, p, ret.m) > 0

\* C10: on a queue with entries PeekByQueueID returns the member of rank
\* 0, whose score is the lowest, and changes neither the live ordering nor
\* the release flags nor the audit documents.
C10_PeekReadsHead ==
    [][(ret'.op = "PeekByQueueID" /\ Len(zset[ret'.q]) > 0) =>
          /\ ret'.err = "nil"
          /\ ret'.member = zset[ret'.q][1].member
          /\ \A i \in 1..Len(zset[ret'.q]) :
                zset[ret'.q][1].score <= zset[ret'.q][i].score
          /\ zset' = zset
          /\ released' = released
          /\ docs' = docs]_vars

\* PeekByQueueID has returned the head of a queue of two entries whose
\* head is not the member with the smallest identifier.
C10_Witness ==
    /\ ret.op = "PeekByQueueID"
    /\ ret.err = "nil"
    /\ Len(zset[ret.q]) = 2
    /\ ret.member = zset[ret.q][1].member
    /\ zset[ret.q][2].member < ret.member

\* C11: GetPosition returns ErrQueueEmpty when the queue has no entries;
\* when it has entries and the member is not one of them it returns an
\* error other than ErrQueueEmpty, never a successful rank.
C11_PositionErrors ==
    ret.op = "GetPosition" =>
        /\ Len(zset[ret.q]) = 0 => ret.err = "ErrQueueEmpty"
        /\ (Len(zset[ret.q]) > 0 /\ ~\E e \in EntrySet(zset[ret.q]) : e.member = ret.m)
              => ret.err \notin {"nil", "ErrQueueEmpty"}

\* GetPosition has failed for an absent member of a queue with entries.
C11_Witness ==
    /\ ret.op = "GetPosition"
    /\ ret.reply > 0
    /\ ret.err = "redis.Nil"
    /\ ret.m \in ever[ret.q]

\* What an upsert of (m, s) into q makes of the store: m's entry is
\* replaced by (m, s), the ordering stays ascending, nothing else changes.
UpsertEffect(q, m, s) ==
    /\ EntrySet(zset'[q]) =
          {e \in EntrySet(zset[q]) : e.member # m} \cup {[member |-> m, score |-> s]}
    /\ Len(zset'[q]) = Cardinality(EntrySet(zset'[q]))
    /\ Ascending(zset'[q])
    /\ \A p \in DOMAIN zset \ {q} : zset'[p] = zset[p]
    /\ released' = released
    /\ docs' = docs

\* C12: SetPriority and Enqueue have the same effect on the store, the
\* upsert of (m, s); after SetPriority(m, s) with s below every other
\* score m has rank 0.
C12_SetPriorityIsEnqueue ==
    [][(ret'.op \in {"SetPriority", "Enqueue"}) =>
          /\ UpsertEffect(ret'.q, ret'.m, ret'.s)
          /\ (\A e \in EntrySet(zset'[ret'.q]) : e.member # ret'.m => ret'.s < e.score)
                => zset'[ret'.q][1].member = ret'.m]_vars

\* SetPriority has moved member 2 from a tie behind member 1 to rank 0.
C12_Witness ==
    /\ ret.op = "SetPriority"
    /\ ret.reply = 0
    /\ ret.m = 2
    /\ zset[ret.q] = <<[member |-> 2, score |-> 1], [member |-> 1, score |-> 2]>>

\* C13: an Enqueue that repeats the Enqueue before it (same queue, member
\* and score) leaves the store as the first one left it.
C13_EnqueueIdempotent ==
    [][(ret'.op = "Enqueue" /\ ret.op = "Enqueue" /\ ret'.q = ret.q
          /\ ret'.m = ret.m /\ ret'.s = ret.s) =>
              (zset' = zset /\ released' = released /\ docs' = docs)]_vars

\* The same Enqueue has been made twice in a row on a queue of two entries.
C13_Witness ==
    /\ ret.op = "Enqueue"
    /\ ret.again
    /\ Len(zset[ret.q]) = 2

\* C14: a Clear of a queue with no entries succeeds, leaves the live
\* ordering as it is, and the queue's flag is set when it returns.
C14_ClearOfEmptySetsFlag ==
    (ret.op = "Clear" /\ ret.reply = 0) =>
        (ret.err = "nil" /\ zset[ret.q] = <<>> /\ released[ret.q])

\* C18: once IsDequeued(q, m) is true it is true in every later state,
\* whatever call follows and also when the live ordering is empty.
C18_DequeuedForEver ==
    [][\A q \in Queues, m \in Members :
          IsDequeuedResult(q, m) => IsDequeuedResult(q, m)']_vars

\* IsDequeued has answered true from an audit document alone, for a
\* member that has been enqueued again since.
C18_Witness ==
    /\ ret.op = "IsDequeued"
    /\ ret.ok
    /\ ~released[ret.q]
    /\ HasMember(zset[ret.q], ret.m)

\* C19: a call on queue q changes neither the live ordering nor the flag
\* nor any IsDequeued answer of another queue.
C19_OtherQueuesUntouched ==
    [][\A p \in Queues : p # ret'.q =>
          /\ zset'[p] = zset[p]
          /\ released'[p] = released[p]
          /\ \A m \in Members : IsDequeuedResult(p, m)' = IsDequeuedResult(p, m)]_vars

\* A Dequeue of one queue has returned a member that the other queue
\* still holds, and a release-all has flagged neither.
C19_Witness ==
    /\ ret.op = "Dequeue"
    /\ Len(ret.members) > 0
    /\ \E p \in Queues \ {ret.q} :
          /\ HasMember(zset[p], ret.members[1])
          /\ ~released[p]
          /\ ~IsDequeuedResult(p, ret.members[1])

\* C20: on a queue with entries, ReleaseAll removes and returns all of
\* them whatever the other fields are; otherwise FirstDequeue with a
\* number above 1 removes the first min(number, K); in every other case
\* exactly the rank-0 entry is removed.
C20_ModeSelection ==
    [][(ret'.op = "Dequeue" /\ Len(zset[ret'.q]) > 0) =>
          LET before == zset[ret'.q]
              K == Len(before)
              k == IF ret'.ra THEN K
                   ELSE IF ret'.fd /\ ret'.n > 1
                        THEN (IF ret'.n < K THEN ret'.n ELSE K)
                        ELSE 1
          IN  /\ ret'.members = [i \in 1..k |-> before[i].member]
              /\ zset'[ret'.q] = [i \in 1..(K - k) |-> before[i + k]]]_vars

\* A Dequeue with FirstDequeue false and number 2 has removed one of two
\* entries.
C20_Witness ==
    /\ ret.op = "Dequeue"
    /\ ~ret.ra /\ ~ret.fd /\ ret.n = 2
    /\ ret.reply = 2
    /\ Len(ret.members) = 1
    /\ Len(zset[ret.q]) = 1

\* C16: a call in which a store command failed returns an error.
C16_FailureSurfaced == ret.failed => ret.err # "nil"

\* The operations whose request names a member.
MemberOps == {"Enqueue", "SetPriority", "GetPosition", "Delete", "IsDequeued"}

\* C17: a call with an empty queue identifier or an empty member
\* identifier returns InvalidRequest.
C17_EmptyIdRejected ==
    (ret.op # "NewService" /\ (ret.q = "" \/ (ret.op \in MemberOps /\ ret.m = 0)))
        => ret.err = "InvalidRequest"

\* C15: a Dequeue that has returned returned exactly the members its
\* remove command took out of the sorted set.
C15_ReturnsWhatItRemoved ==
    \A p \in Procs : inflight[p].pc = "idle" => inflight[p].members = inflight[p].removed

\* Caller p runs a release-all (Dequeue with ReleaseAll, or Clear) of q.
ReleaseAllOf(p, q) ==
    /\ inflight[p].req.q = q
    /\ \/ inflight[p].req.op = "Dequeue" /\ inflight[p].req.ra
       \/ inflight[p].req.op = "Clear"

\* Caller p's release-all of q has applied its bulk remove and not yet its
\* flag write.
BetweenRemoveAndFlag(p, q) ==
    ReleaseAllOf(p, q) /\ inflight[p].pc \in {"Record", "ClearSet"}

\* Caller p's release-all of q has applied its bulk remove.
BulkRemoveDone(p, q) ==
    ReleaseAllOf(p, q) /\ inflight[p].req.reply > 0
        /\ inflight[p].pc \in {"Record", "ClearSet", "idle"}

\* C21: once a release-all of q has applied its bulk remove, the flag of q
\* is eventually set, and while the flag is not set every release-all of q
\* that has applied its bulk remove is between the remove and the flag write.
C21_FlagFollowsBulkRemove ==
    /\ \A p \in Procs, q \in Queues : BetweenRemoveAndFlag(p, q) ~> released[q]
    /\ [](\A p \in Procs, q \in Queues :
             (BulkRemoveDone(p, q) /\ ~released[q]) => BetweenRemoveAndFlag(p, q))

\* A release-all has emptied a queue that held members and its flag write
\* is still to come.
C21_Witness ==
    \E p \in Procs :
        /\ BetweenRemoveAndFlag(p, SharedQueue)
        /\ ever[SharedQueue] # {}
        /\ zset[SharedQueue] = <<>>
        /\ ~released[SharedQueue]

\* C23: while the flag of q is not set, a member that IsDequeued(q, m)
\* reports as dequeued was taken out of q by the remove command of some
\* Dequeue.
C23_AuditedWasTaken ==
    \A q \in Queues, m \in Members :
        (~released[q] /\ IsDequeuedResult(q, m)) => \E p \in Procs : <<q, m>> \in inflight[p].taken

\* C22: over a store whose commands are all answered, Dequeue and Clear
\* return no error, whatever other calls did to the queue between their
\* commands.
C22_EmptyIsSuccess ==
    ret.op \in {"Dequeue", "Clear"} => ret.err = "nil"

\* C24: a Dequeue that returns an error returns no member and leaves the
\* sorted sets, the flags and the audit documents as they were.
C24_FailedDequeueChangesNothing ==
    [][(ret'.op = "Dequeue" /\ ret'.err # "nil")
          => (ret'.members = <<>> /\ UNCHANGED <<zset, released, docs>>)]_vars

\* C25 as stated: a member that IsDequeued(q, m) reports as dequeued is not
\* in the live ordering of q.
C25_PresentIsNotDequeued ==
    \A q \in Queues, m \in Members : IsDequeuedResult(q, m) => ~HasMember(zset[q], m)

\* C25: a member in the live ordering of q is reported as dequeued only
\* when the flag of q is set or an earlier Dequeue of q returned it.
C25_PresentDequeuedOnlyIfReturned ==
    \A q \in Queues, m \in Members :
        (HasMember(zset[q], m) /\ IsDequeuedResult(q, m)) => (released[q] \/ m \in returned[q])

\* IsDequeued has answered false for a member in the live ordering of a
\* queue that has an audit document for another member.
C25_Witness ==
    /\ ret.op = "IsDequeued" /\ ret.err = "nil" /\ ~ret.ok
    /\ HasMember(zset[ret.q], ret.m)
    /\ \E doc \in docs : doc.id = ret.q

\* The call is a Dequeue of one member: neither release-all nor first-N
\* with N above 1.
SingleDequeue(call) ==
    call.op = "Dequeue" /\ ~call.ra /\ ~(call.fd /\ call.n > 1)

\* C26: with no call in between, GetPosition of the member PeekByQueueID
\* returned is 0, a single Dequeue returns the one-element list of that
\* member, and GetPosition of the member a single Dequeue returned no
\* longer returns a rank.
C26_HeadViewsAgree ==
    [][/\ (ret.op = "PeekByQueueID" /\ ret.err = "nil" /\ ret'.op = "GetPosition"
             /\ ret'.q = ret.q /\ ret'.m = ret.member)
          => (ret'.err = "nil" /\ ret'.pos = 0)
       /\ (ret.op = "PeekByQueueID" /\ ret.err = "nil" /\ SingleDequeue(ret')
             /\ ret'.q = ret.q)
          => (ret'.err = "nil" /\ ret'.members = <<ret.member>>)
       /\ (SingleDequeue(ret) /\ Len(ret.members) = 1 /\ ret'.op = "GetPosition"
             /\ ret'.q = ret.q /\ ret'.m = ret.members[1])
          => ret'.err # "nil"]_vars

\* After a single Dequeue took the head of a queue of two entries,
\* GetPosition of that member has found the queue non-empty and the member
\* absent.
C26_Witness ==
    /\ ret.op = "GetPosition" /\ ret.err = "redis.Nil"
    /\ ret.m \in returned[ret.q]
    /\ [id |-> ret.q, members |-> <<ret.m>>] \in docs
    /\ Len(zset[ret.q]) = 1

====
